---- MODULE Spec2Model ----
(***************************************************************************)
(* Proposer layer of the chain: the Windower (vms/proposervm/proposer/     *)
(* windower.go) and the pre-fork block lineage rules                       *)
(* (vms/proposervm/pre_fork_block.go).                                     *)
(*                                                                         *)
(* Integers of the code keep their signedness at a reduced width: a        *)
(* uint64 is an unsigned UintBits-bit number and an int / int64 is a       *)
(* signed number of the same width.  Durations are counted in seconds.     *)
(***************************************************************************)
EXTENDS Integers, Sequences, FiniteSets, TLC

VARIABLES
    sampler,        \* windower.sampler: the one sampler held by the Windower
    dl,             \* per caller of Delay: its position and its local variables
    blkTime,        \* Timestamp() of each pre-fork block
    oracle,         \* the pre-fork blocks whose inner block is an oracle block
    status,         \* Status() of each pre-fork block
    lastAccepted,   \* what vm.GetLastAccepted() answers
    currentHeight,  \* what ValidatorState.GetCurrentHeight() answers
    now,            \* vm.Time()
    Tree,           \* vm.Tree: the inner blocks recorded as verified
    verifiedBlocks, \* vm.verifiedBlocks: the verified post-fork blocks
    vc              \* per caller of a verification: position, arguments, result

wvars == <<sampler, dl>>
cvars == <<blkTime, oracle, status, lastAccepted, currentHeight>>
bvars == <<cvars, now, Tree, verifiedBlocks, vc>>
vars == <<wvars, bvars>>

-----------------------------------------------------------------------------
(* Bounds and program constants *)

UintBits == 5
MaxChainHeight == 1

maxWindows == 5
windowDuration == 3

Pow2(n) == 2 ^ n
MaxUint64 == Pow2(UintBits) - 1
MaxInt == Pow2(UintBits - 1) - 1

\* int(x) / int64(x) of an unsigned x: two's complement reinterpretation
ToInt(u) == IF u > MaxInt THEN u - Pow2(UintBits) ELSE u

-----------------------------------------------------------------------------
(* The validator sets served by the P-chain *)

ValidatorIDs == {1, 2, 3}           \* identities, ordered as their bytes are
NoValidator == Cardinality(ValidatorIDs) + 1    \* in no snapshot
Candidates == ValidatorIDs \union {NoValidator}
WeightTable == <<1, 3, MaxInt + 1>>

\* Every snapshot over ValidatorIDs x WeightTable is the validator set of one
\* height: the base-4 digit v of the height is validator v's weight class
\* (0: not a validator).  Heights past the last indexed one fail.
LastIndexedHeight == Pow2(2 * Cardinality(ValidatorIDs)) - 1
PChainHeights == 0..(LastIndexedHeight + 1)
ChainHeights == 0..MaxChainHeight

Digit(h, v) == (h \div Pow2(2 * (v - 1))) % 4

GetValidatorSet(pChainHeight) ==
    IF pChainHeight > LastIndexedHeight
    THEN [err |-> "errLookup", set |-> << >>]
    ELSE LET S == {v \in ValidatorIDs : Digit(pChainHeight, v) # 0}
         IN [err |-> "nil",
             set |-> [v \in S |-> WeightTable[Digit(pChainHeight, v)]]]

RECURSIVE SumOver(_, _)
SumOver(f, S) ==
    IF S = {} THEN 0
    ELSE LET x == CHOOSE y \in S : TRUE IN f[x] + SumOver(f, S \ {x})

TotalWeight(vmap) == SumOver(vmap, DOMAIN vmap)

\* The orders in which `range validatorsMap` may visit the keys
IterationOrders(vmap) ==
    {o \in [1..Cardinality(DOMAIN vmap) -> DOMAIN vmap] :
        \A i, j \in DOMAIN o : i # j => o[i] # o[j]}

-----------------------------------------------------------------------------
(* The sampler (utils/sampler): deterministic, seeded, weighted, without   *)
(* replacement over weight units.  Its state is the weights it was last    *)
(* initialized with and the position of its generator.                     *)

RngMod == Pow2(UintBits)

NewDeterministicWeightedWithoutReplacement == [weights |-> << >>, rng |-> 0]

Initialize(s, weights) == [s EXCEPT !.weights = weights]

Seed(s, seed) == [s EXCEPT !.rng = seed % RngMod]

RngNext(r) == (5 * r + 3) % RngMod

\* The population: index i of the weight sequence, weights[i] times
RECURSIVE Units(_, _)
Units(weights, i) ==
    IF i > Len(weights) THEN << >>
    ELSE [k \in 1..weights[i] |-> i] \o Units(weights, i + 1)

RemoveAt(seq, k) == [j \in 1..(Len(seq) - 1) |-> IF j < k THEN seq[j] ELSE seq[j + 1]]

RECURSIVE Draw(_, _, _, _)
Draw(pool, rng, count, acc) ==
    IF count = 0 \/ pool = << >>
    THEN [indices |-> acc, rng |-> rng]
    ELSE LET r == RngNext(rng)
             k == (r % Len(pool)) + 1
         IN Draw(RemoveAt(pool, k), r, count - 1, Append(acc, pool[k]))

\* Sample(count): count indices into the weight sequence, fewer when the
\* population is smaller; a negative count is no valid request.
Sample(s, count) ==
    IF count < 0
    THEN [err |-> "errSample", indices |-> << >>, s |-> s]
    ELSE LET d == Draw(Units(s.weights, 1), s.rng, count, << >>)
         IN [err |-> "nil", indices |-> d.indices, s |-> [s EXCEPT !.rng = d.rng]]

-----------------------------------------------------------------------------
(* windower.Delay, statement by statement *)

\* math.Add64: checked addition of two uint64
Add64(a, b) ==
    IF a > MaxUint64 - b
    THEN [err |-> "errOverflow", val |-> 0]
    ELSE [err |-> "nil", val |-> a + b]

\* lines 55-67: the slice in iteration order, and the checked total weight
AppendValidators(vmap, order) ==
    [i \in 1..Len(order) |-> [id |-> order[i], weight |-> vmap[order[i]]]]

RECURSIVE SumWeightsUnchecked(_, _, _)
SumWeightsUnchecked(vals, i, weight) ==
    IF i > Len(vals) THEN [err |-> "nil", weight |-> weight]
    ELSE SumWeightsUnchecked(vals, i + 1, (weight + vals[i].weight) % (MaxUint64 + 1))

RECURSIVE SumWeights(_, _, _)
SumWeights(vals, i, weight) ==
    IF i > Len(vals) THEN [err |-> "nil", weight |-> weight]
    ELSE LET r == Add64(weight, vals[i].weight)
         IN IF r.err # "nil"
            THEN [err |-> r.err, weight |-> 0]
            ELSE SumWeights(vals, i + 1, r.val)

\* line 72: sort.Sort(validators), ascending by id (insertion sort)
RECURSIVE InsertByID(_, _)
InsertByID(sorted, v) ==
    IF sorted = << >> THEN <<v>>
    ELSE IF v.id < Head(sorted).id THEN <<v>> \o sorted
    ELSE <<Head(sorted)>> \o InsertByID(Tail(sorted), v)

RECURSIVE SortFrom(_, _, _)
SortFrom(vals, i, acc) ==
    IF i > Len(vals) THEN acc
    ELSE SortFrom(vals, i + 1, InsertByID(acc, vals[i]))

SortSkipped(vals) == vals

SortByID(vals) == SortFrom(vals, 1, << >>)

\* lines 56-67 as a whole: weight starts at 0
TotalOfWrapping(vals) == SumWeightsUnchecked(vals, 1, 0)

TotalOf(vals) == SumWeights(vals, 1, 0)

\* lines 75-78
ValidatorWeights(vals) == [i \in 1..Len(vals) |-> vals[i].weight]

\* lines 84-87
NumToSample(weight) ==
    IF maxWindows < weight THEN ToInt(weight) ELSE maxWindows

\* lines 96-104: the walk over the drawn indices; an index outside the
\* slice is a run-time panic
RECURSIVE Walk(_, _, _, _, _)
Walk(indices, i, vals, validatorID, delay) ==
    IF i > Len(indices) THEN [err |-> "nil", delay |-> delay]
    ELSE IF indices[i] > Len(vals) THEN [err |-> "panic", delay |-> 0]
    ELSE IF vals[indices[i]].id = validatorID THEN [err |-> "nil", delay |-> delay]
    ELSE Walk(indices, i + 1, vals, validatorID, delay + windowDuration)

DelayOfNoStop(indices, vals, validatorID) ==
    [err |-> "nil", delay |-> Len(indices) * windowDuration]

DelayOfAbsentZero(indices, vals, validatorID) ==
    IF \E i \in DOMAIN indices :
           indices[i] \in DOMAIN vals /\ vals[indices[i]].id = validatorID
    THEN Walk(indices, 1, vals, validatorID, 0)
    ELSE [err |-> "nil", delay |-> 0]

DelayOf(indices, vals, validatorID) == Walk(indices, 1, vals, validatorID, 0)

\* The local variables of one call of Delay
Callers == {1, 2}

Idle ==
    [pc |-> "idle", chainHeight |-> 0, pChainHeight |-> 0,
     validatorID |-> NoValidator, order |-> << >>, validators |-> << >>,
     validatorWeights |-> << >>, weight |-> 0, numToSample |-> 0,
     indices |-> << >>, delay |-> 0, err |-> "nil",
     reused |-> FALSE]      \* the sampler had served an earlier call

Return(loc, delay, err) == [loc EXCEPT !.pc = "done", !.delay = delay, !.err = err]

\* lines 47-87: from the lookup to sampler.Initialize and numToSample.
\* Result: the caller's locals and the sampler.
DelayBegin(chainHeight, pChainHeight, validatorID, order, s) ==
    LET loc == [Idle EXCEPT !.chainHeight = chainHeight,
                            !.pChainHeight = pChainHeight,
                            !.validatorID = validatorID,
                            !.order = order,
                            !.reused = (s # NewDeterministicWeightedWithoutReplacement)]
        vs == GetValidatorSet(pChainHeight)
        vals == AppendValidators(vs.set, order)
        sum == TotalOf(vals)
        sorted == SortByID(vals)
    IN IF vs.err # "nil" THEN [loc |-> Return(loc, 0, vs.err), s |-> s]
       ELSE IF sum.err # "nil" THEN [loc |-> Return(loc, 0, sum.err), s |-> s]
       ELSE [loc |-> [loc EXCEPT !.pc = "initialized",
                                 !.validators = sorted,
                                 !.validatorWeights = ValidatorWeights(sorted),
                                 !.weight = sum.weight,
                                 !.numToSample = NumToSample(sum.weight)],
             s |-> Initialize(s, ValidatorWeights(sorted))]

\* line 89
DelaySeedSkipped(loc, s) == [loc |-> [loc EXCEPT !.pc = "seeded"], s |-> s]

DelaySeed(loc, s) ==
    [loc |-> [loc EXCEPT !.pc = "seeded"], s |-> Seed(s, ToInt(loc.chainHeight))]

\* lines 91-104
DelaySample(loc, s) ==
    LET r == Sample(s, loc.numToSample)
        w == DelayOf(r.indices, loc.validators, loc.validatorID)
    IN IF r.err # "nil" THEN [loc |-> Return(loc, 0, r.err), s |-> r.s]
       ELSE [loc |-> Return([loc EXCEPT !.indices = r.indices], w.delay, w.err),
             s |-> r.s]

\* The whole of Delay, run without interruption
DelayWhole(chainHeight, pChainHeight, validatorID, order, s) ==
    LET b == DelayBegin(chainHeight, pChainHeight, validatorID, order, s)
    IN IF b.loc.pc = "done" THEN b
       ELSE LET sd == DelaySeed(b.loc, b.s) IN DelaySample(sd.loc, sd.s)

-----------------------------------------------------------------------------
(* The pre-fork blocks, the post-fork children and the VM around them *)

activationTime == 2
minimumPChainHeight == 1
maxSkew == 1
MaxNow == 3
MaxVerified == 2                   \* blocks the verified-block index holds at most
SubSeconds == 2                    \* clock readings per second

\* The inner chain 1 <- 2 <- 3 (0: the block before it).  A pre-fork block
\* is its inner block: ID(), Parent(), Timestamp() and Status() are those of
\* the embedded snowman.Block.
PreForkIDs == {1, 2}
InnerIDs == {2, 3}                 \* the inner blocks post-fork children wrap
InnerParent(i) == i - 1

Times == 1..(activationTime + 1)    \* before, at and after the activation
PostForkBlocks ==
    [pChainHeight : 0..(minimumPChainHeight + 1),
     timestamp : 1..(activationTime + maxSkew + 2),
     innerBlk : InnerIDs,
     signed : BOOLEAN]

NoChild == [pChainHeight |-> 0, timestamp |-> 1, innerBlk |-> 2, signed |-> TRUE]

\* What buildChild hands back: no block, a *preForkBlock or a *postForkBlock.
\* The timestamp of a built block counts clock readings (SubSeconds a second).
NoBlock ==
    [kind |-> "nil", parent |-> 0, innerBlk |-> 0, timestamp |-> 0,
     pChainHeight |-> 0, status |-> "none"]

Quiet ==
    [pc |-> "idle", op |-> "none", b |-> 1, child |-> NoChild, err |-> "nil",
     innerVerified |-> FALSE,  \* this call invoked the inner block's Verify
     innerAns |-> "none",      \* ... and this is what it answered
     heightAsked |-> FALSE,    \* this call invoked GetCurrentHeight
     stored |-> FALSE,         \* storePostForkBlock has persisted the block
     blk |-> NoBlock]          \* the block this call returns

InitLineageFixed ==
    /\ blkTime = [b \in PreForkIDs |-> activationTime]
    /\ oracle = {}
    /\ status = [b \in PreForkIDs |-> "Processing"]
    /\ lastAccepted = "errNotFound"
    /\ currentHeight = [err |-> "nil", height |-> minimumPChainHeight]
    /\ now = activationTime
    /\ Tree = {}
    /\ verifiedBlocks = {}
    /\ vc = [p \in Callers |-> Quiet]

\* After construction: nothing verified yet; the blocks and the answers of
\* the collaborators are whatever the chain holds.
InitLineage ==
    /\ blkTime \in {t \in [PreForkIDs -> Times] : t[1] <= t[2]}
    /\ oracle \in SUBSET PreForkIDs
    /\ status \in {s \in [PreForkIDs -> {"Accepted", "Processing"}] :
                      s[2] = "Accepted" => s[1] = "Accepted"}
    /\ lastAccepted \in {"nil", "errNotFound", "errDatabase"}
    /\ currentHeight \in {[err |-> "errHeight", height |-> 0],
                          [err |-> "nil", height |-> minimumPChainHeight]}
    /\ now = activationTime
    /\ Tree = {}
    /\ verifiedBlocks = {}
    /\ vc = [p \in Callers |-> Quiet]

\* verifyIsNotOracleBlock(b.Block)
VerifyIsNotOracleBlock(b) == IF b \in oracle THEN "errParentIsOracle" ELSE "nil"

\* lines 217-238
VerifyIsPreForkBlockNotFoundIsError(b) ==
    IF status[b] = "Accepted"
    THEN IF lastAccepted = "nil" THEN "errUnexpectedBlockType"
         ELSE lastAccepted
    ELSE IF b \in Tree THEN "errUnexpectedBlockType"
    ELSE "nil"

VerifyIsPreForkBlock(b) ==
    IF status[b] = "Accepted"
    THEN IF lastAccepted = "nil" THEN "errUnexpectedBlockType"
         ELSE IF lastAccepted # "errNotFound" THEN lastAccepted
         ELSE "nil"
    ELSE IF b \in Tree THEN "errUnexpectedBlockType"
    ELSE "nil"

\* lines 88-140: the checks before the inner block is looked at
ChecksNoActivation(b, child) ==
    IF VerifyIsNotOracleBlock(b) # "nil" THEN VerifyIsNotOracleBlock(b)
    ELSE IF VerifyIsPreForkBlock(b) # "nil" THEN VerifyIsPreForkBlock(b)
    ELSE IF currentHeight.err # "nil" THEN currentHeight.err
    ELSE IF child.pChainHeight > currentHeight.height THEN "errPChainHeightNotReached"
    ELSE IF child.pChainHeight < minimumPChainHeight THEN "errPChainHeightTooLow"
    ELSE IF InnerParent(child.innerBlk) # b THEN "errInnerParentMismatch"
    ELSE IF child.timestamp < blkTime[b] THEN "errTimeNotMonotonic"
    ELSE IF child.timestamp > now + maxSkew THEN "errTimeTooAdvanced"
    ELSE IF child.signed THEN "errUnexpectedSignature"
    ELSE "nil"

ChecksTimeInclusive(b, child) ==
    IF VerifyIsNotOracleBlock(b) # "nil" THEN VerifyIsNotOracleBlock(b)
    ELSE IF VerifyIsPreForkBlock(b) # "nil" THEN VerifyIsPreForkBlock(b)
    ELSE IF currentHeight.err # "nil" THEN currentHeight.err
    ELSE IF child.pChainHeight > currentHeight.height THEN "errPChainHeightNotReached"
    ELSE IF child.pChainHeight < minimumPChainHeight THEN "errPChainHeightTooLow"
    ELSE IF InnerParent(child.innerBlk) # b THEN "errInnerParentMismatch"
    ELSE IF blkTime[b] < activationTime THEN "errProposersNotActivated"
    ELSE IF child.timestamp <= blkTime[b] THEN "errTimeNotMonotonic"
    ELSE IF child.timestamp >= now + maxSkew THEN "errTimeTooAdvanced"
    ELSE IF child.signed THEN "errUnexpectedSignature"
    ELSE "nil"

ChecksLinkageBeforeHeight(b, child) ==
    IF VerifyIsNotOracleBlock(b) # "nil" THEN VerifyIsNotOracleBlock(b)
    ELSE IF VerifyIsPreForkBlock(b) # "nil" THEN VerifyIsPreForkBlock(b)
    ELSE IF InnerParent(child.innerBlk) # b THEN "errInnerParentMismatch"
    ELSE IF currentHeight.err # "nil" THEN currentHeight.err
    ELSE IF child.pChainHeight > currentHeight.height THEN "errPChainHeightNotReached"
    ELSE IF child.pChainHeight < minimumPChainHeight THEN "errPChainHeightTooLow"
    ELSE IF blkTime[b] < activationTime THEN "errProposersNotActivated"
    ELSE IF child.timestamp < blkTime[b] THEN "errTimeNotMonotonic"
    ELSE IF child.timestamp > now + maxSkew THEN "errTimeTooAdvanced"
    ELSE IF child.signed THEN "errUnexpectedSignature"
    ELSE "nil"

Checks(b, child) ==
    IF VerifyIsNotOracleBlock(b) # "nil" THEN VerifyIsNotOracleBlock(b)
    ELSE IF VerifyIsPreForkBlock(b) # "nil" THEN VerifyIsPreForkBlock(b)
    ELSE IF currentHeight.err # "nil" THEN currentHeight.err
    ELSE IF child.pChainHeight > currentHeight.height THEN "errPChainHeightNotReached"
    ELSE IF child.pChainHeight < minimumPChainHeight THEN "errPChainHeightTooLow"
    ELSE IF InnerParent(child.innerBlk) # b THEN "errInnerParentMismatch"
    ELSE IF blkTime[b] < activationTime THEN "errProposersNotActivated"
    ELSE IF child.timestamp < blkTime[b] THEN "errTimeNotMonotonic"
    ELSE IF child.timestamp > now + maxSkew THEN "errTimeTooAdvanced"
    ELSE IF child.signed THEN "errUnexpectedSignature"
    ELSE "nil"

\* line 147
ContainsNever(tree, innerBlk) == FALSE

ContainsAlways(tree, innerBlk) == TRUE

Contains(tree, innerBlk) == innerBlk \in tree

Called(p, b, child) ==
    [Quiet EXCEPT !.op = "verifyPostForkChild", !.b = b, !.child = child]

\* lines 87-156, without interruption; innerErr is what child.innerBlk.Verify()
\* answers if it is asked
verifyPostForkChild(p, b, child, innerErr) ==
    /\ vc[p].pc = "idle"
    /\ Cardinality(verifiedBlocks) < MaxVerified   \* the index is kept finite
    /\ LET c == Called(p, b, child)
           e == Checks(b, child)
       IN IF e # "nil"
          THEN /\ vc' = [vc EXCEPT ![p] = [c EXCEPT !.pc = "done", !.err = e]]
               /\ UNCHANGED <<Tree, verifiedBlocks>>
          ELSE IF Contains(Tree, child.innerBlk)
          THEN /\ vc' = [vc EXCEPT ![p] = [c EXCEPT !.pc = "done"]]
               /\ verifiedBlocks' = verifiedBlocks \union {child}
               /\ UNCHANGED Tree
          ELSE IF innerErr # "nil"
          THEN /\ vc' = [vc EXCEPT ![p] = [c EXCEPT !.pc = "done", !.err = innerErr,
                                                   !.innerVerified = TRUE,
                                                   !.innerAns = innerErr]]
               /\ UNCHANGED <<Tree, verifiedBlocks>>
          ELSE /\ vc' = [vc EXCEPT ![p] = [c EXCEPT !.pc = "done",
                                                   !.innerVerified = TRUE,
                                                   !.innerAns = innerErr]]
               /\ Tree' = Tree \union {child.innerBlk}
               /\ verifiedBlocks' = verifiedBlocks \union {child}
    /\ UNCHANGED <<cvars, now, wvars>>

\* Callers that verify at the same time: the call up to line 147 ...
verifyPostForkChildStart(p, b, child) ==
    /\ vc[p].pc = "idle"
    /\ LET c == Called(p, b, child)
           e == Checks(b, child)
       IN IF e # "nil"
          THEN /\ vc' = [vc EXCEPT ![p] = [c EXCEPT !.pc = "done", !.err = e]]
               /\ UNCHANGED <<Tree, verifiedBlocks>>
          ELSE IF Contains(Tree, child.innerBlk)
          THEN /\ vc' = [vc EXCEPT ![p] = [c EXCEPT !.pc = "done"]]
               /\ verifiedBlocks' = verifiedBlocks \union {child}
               /\ UNCHANGED Tree
          ELSE /\ vc' = [vc EXCEPT ![p] = [c EXCEPT !.pc = "verifying"]]
               /\ UNCHANGED <<Tree, verifiedBlocks>>
    /\ UNCHANGED <<cvars, now, wvars>>

\* ... and lines 148-155: child.innerBlk.Verify() and what follows it
verifyPostForkChildInner(p, innerErr) ==
    /\ vc[p].pc = "verifying"
    /\ IF innerErr # "nil"
       THEN /\ vc' = [vc EXCEPT ![p].pc = "done", ![p].err = innerErr,
                                ![p].innerVerified = TRUE, ![p].innerAns = innerErr]
            /\ UNCHANGED <<Tree, verifiedBlocks>>
       ELSE /\ vc' = [vc EXCEPT ![p].pc = "done", ![p].innerVerified = TRUE,
                                ![p].innerAns = innerErr]
            /\ Tree' = Tree \union {vc[p].child.innerBlk}
            /\ verifiedBlocks' = verifiedBlocks \union {vc[p].child}
    /\ UNCHANGED <<cvars, now, wvars>>

\* verifyIsOracleBlock(b.Block)
VerifyIsOracleBlock(b) == IF b \in oracle THEN "nil" ELSE "errNotOracle"

\* A pre-fork child is its inner block; these are the ones handed to
\* verifyPreForkChild and the arguments of verifyPostForkOption
PreForkChild(i) == [NoChild EXCEPT !.innerBlk = i]
PostForkOption(i) == [NoChild EXCEPT !.innerBlk = i]

\* lines 68-81: the checks before the child's inner block is asked
PreForkChildChecksNoOracle(b) ==
    IF blkTime[b] >= activationTime
    THEN VerifyIsPreForkBlock(b)
    ELSE "nil"

PreForkChildChecksNoPreFork(b) ==
    IF blkTime[b] >= activationTime
    THEN VerifyIsOracleBlock(b)
    ELSE "nil"

PreForkChildChecks(b) ==
    IF blkTime[b] >= activationTime
    THEN IF VerifyIsOracleBlock(b) # "nil" THEN VerifyIsOracleBlock(b)
         ELSE VerifyIsPreForkBlock(b)
    ELSE "nil"

\* lines 68-84; innerErr is what child.Block.Verify() answers if it is asked
verifyPreForkChild(p, b, i, innerErr) ==
    /\ vc[p].pc = "idle"
    /\ LET c == [Quiet EXCEPT !.op = "verifyPreForkChild", !.b = b,
                              !.child = PreForkChild(i), !.pc = "done"]
           e == PreForkChildChecks(b)
       IN IF e # "nil"
          THEN vc' = [vc EXCEPT ![p] = [c EXCEPT !.err = e]]
          ELSE vc' = [vc EXCEPT ![p] = [c EXCEPT !.err = innerErr,
                                                 !.innerVerified = TRUE,
                                                 !.innerAns = innerErr]]
    /\ UNCHANGED <<cvars, now, Tree, verifiedBlocks, wvars>>

\* lines 158-160
OptionResultAsPostForkChild(b, child) ==
    IF blkTime[b] < activationTime THEN "errProposersNotActivated" ELSE "nil"

OptionResult(b, child) == "errUnexpectedBlockType"

verifyPostForkOption(p, b, i) ==
    /\ vc[p].pc = "idle"
    /\ vc' = [vc EXCEPT ![p] =
                [Quiet EXCEPT !.op = "verifyPostForkOption", !.b = b,
                              !.child = PostForkOption(i), !.pc = "done",
                              !.err = OptionResult(b, PostForkOption(i))]]
    /\ UNCHANGED <<cvars, now, Tree, verifiedBlocks, wvars>>

\* lines 217-238, called on its own
verifyIsPreForkBlock(p, b) ==
    /\ vc[p].pc = "idle"
    /\ vc' = [vc EXCEPT ![p] =
                [Quiet EXCEPT !.op = "verifyIsPreForkBlock", !.b = b,
                              !.pc = "done", !.err = VerifyIsPreForkBlock(b)]]
    /\ UNCHANGED <<cvars, now, Tree, verifiedBlocks, wvars>>

\* b.vm.Time() read frac clock readings into second now
Time(frac) == now * SubSeconds + frac

\* line 179: Time.Truncate(d), with t and d in clock readings
TruncateSkipped(t, d) == t

Truncate(t, d) == t - (t % d)

\* lines 179-182
NewTimestamp(b, frac) ==
    LET newTimestamp == Truncate(Time(frac), SubSeconds)
        parentTimestamp == blkTime[b] * SubSeconds
    IN IF newTimestamp < parentTimestamp THEN parentTimestamp ELSE newTimestamp

StoreErrs == {"nil", "errStore"}
BuildErrs == {"nil", "errBuild"}

\* lines 162-211; frac is the sub-second part of the clock when it is read,
\* buildErr what block.BuildUnsigned answers and storeErr what
\* storePostForkBlock answers, if they are asked
buildChild(p, b, innerBlock, frac, buildErr, storeErr) ==
    /\ vc[p].pc = "idle"
    /\ LET c == [Quiet EXCEPT !.op = "buildChild", !.b = b, !.pc = "done",
                              !.child = PreForkChild(innerBlock)]
       IN IF blkTime[b] < activationTime
          THEN vc' = [vc EXCEPT ![p] =
                        [c EXCEPT !.blk = [NoBlock EXCEPT !.kind = "preForkBlock",
                                                          !.innerBlk = innerBlock]]]
          ELSE IF currentHeight.err # "nil"
          THEN vc' = [vc EXCEPT ![p] =
                        [c EXCEPT !.heightAsked = TRUE, !.err = currentHeight.err]]
          ELSE IF buildErr # "nil"
          THEN vc' = [vc EXCEPT ![p] =
                        [c EXCEPT !.heightAsked = TRUE, !.err = buildErr]]
          ELSE vc' = [vc EXCEPT ![p] =
                        [c EXCEPT !.heightAsked = TRUE,
                                  !.err = storeErr,
                                  !.stored = (storeErr = "nil"),
                                  !.blk = [kind |-> "postForkBlock",
                                           parent |-> b,
                                           innerBlk |-> innerBlock,
                                           timestamp |-> NewTimestamp(b, frac),
                                           pChainHeight |-> currentHeight.height,
                                           status |-> "Processing"]]]
    /\ UNCHANGED <<cvars, now, Tree, verifiedBlocks, wvars>>

\* The caller has taken the result of its call
VerifyReturn(p) ==
    /\ vc[p].pc = "done"
    /\ vc' = [vc EXCEPT ![p] = Quiet]
    /\ UNCHANGED <<cvars, now, Tree, verifiedBlocks, wvars>>

\* The clock of the node advances
Tick ==
    /\ now < MaxNow
    /\ now' = now + 1
    /\ UNCHANGED <<cvars, Tree, verifiedBlocks, vc, wvars>>

InnerErrs == {"nil", "errInnerVerify"}


-----------------------------------------------------------------------------
(* Actions of the Windower *)

\* One caller, one call at a time
Delay(p, chainHeight, pChainHeight, validatorID, order) ==
    /\ dl[p].pc = "idle"
    /\ LET r == DelayWhole(chainHeight, pChainHeight, validatorID, order, sampler)
       IN /\ sampler' = r.s
          /\ dl' = [dl EXCEPT ![p] = r.loc]
    /\ UNCHANGED bvars

\* The caller has taken the result of its call
DelayReturn(p) ==
    /\ dl[p].pc = "done"
    /\ dl' = [dl EXCEPT ![p] = Idle]
    /\ UNCHANGED <<sampler, bvars>>

\* Callers that share the Windower: each call advances statement by statement
DelayStart(p, chainHeight, pChainHeight, validatorID, order) ==
    /\ dl[p].pc = "idle"
    /\ LET r == DelayBegin(chainHeight, pChainHeight, validatorID, order, sampler)
       IN /\ sampler' = r.s
          /\ dl' = [dl EXCEPT ![p] = r.loc]
    /\ UNCHANGED bvars

DelaySeedStep(p) ==
    /\ dl[p].pc = "initialized"
    /\ LET r == DelaySeed(dl[p], sampler)
       IN /\ sampler' = r.s
          /\ dl' = [dl EXCEPT ![p] = r.loc]
    /\ UNCHANGED bvars

DelaySampleStep(p) ==
    /\ dl[p].pc = "seeded"
    /\ LET r == DelaySample(dl[p], sampler)
       IN /\ sampler' = r.s
          /\ dl' = [dl EXCEPT ![p] = r.loc]
    /\ UNCHANGED bvars

MaxConcHeight == 6
ConcPChainHeights == 4..MaxConcHeight
ConcCandidates == {1, 2}

InitWindower ==
    /\ sampler = NewDeterministicWeightedWithoutReplacement
    /\ dl = [p \in Callers |-> Idle]

InitDelay == InitWindower /\ InitLineageFixed

NextDelay ==
    \/ \E ch \in ChainHeights, ph \in PChainHeights, id \in Candidates :
         \E order \in IterationOrders(GetValidatorSet(ph).set) :
             Delay(1, ch, ph, id, order)
    \/ DelayReturn(1)

SpecDelay == InitDelay /\ [][NextDelay]_vars

NextDelayConc ==
    \E p \in Callers :
        \/ \E ch \in ChainHeights, ph \in ConcPChainHeights, id \in ConcCandidates :
             \E order \in IterationOrders(GetValidatorSet(ph).set) :
                 DelayStart(p, ch, ph, id, order)
        \/ DelaySeedStep(p)
        \/ DelaySampleStep(p)
        \/ DelayReturn(p)

SpecDelayConc == InitDelay /\ [][NextDelayConc]_vars

\* The lineage rules, one verification at a time
Init == InitWindower /\ InitLineage

Next ==
    \/ \E b \in PreForkIDs, child \in PostForkBlocks, innerErr \in InnerErrs :
         verifyPostForkChild(1, b, child, innerErr)
    \/ \E b \in PreForkIDs, i \in InnerIDs, innerErr \in InnerErrs :
         verifyPreForkChild(1, b, i, innerErr)
    \/ \E b \in PreForkIDs, i \in InnerIDs : verifyPostForkOption(1, b, i)
    \/ \E b \in PreForkIDs : verifyIsPreForkBlock(1, b)
    \/ \E b \in PreForkIDs, innerBlock \in InnerIDs, frac \in 0..(SubSeconds - 1),
          buildErr \in BuildErrs, storeErr \in StoreErrs :
         buildChild(1, b, innerBlock, frac, buildErr, storeErr)
    \/ VerifyReturn(1)
    \/ Tick

Spec == Init /\ [][Next]_vars

\* The lineage rules with two verifications in flight, on a chain past its
\* activation whose blocks are all still processing
ConcChildren ==
    {c \in PostForkBlocks :
        /\ ~c.signed
        /\ c.pChainHeight = minimumPChainHeight
        /\ c.timestamp \in activationTime..(activationTime + 1)}

InitConc == InitWindower /\ InitLineageFixed

NextConc ==
    \E p \in Callers :
        \/ \E b \in PreForkIDs, child \in ConcChildren :
             verifyPostForkChildStart(p, b, child)
        \/ \E innerErr \in InnerErrs : verifyPostForkChildInner(p, innerErr)
        \/ VerifyReturn(p)

SpecConc == InitConc /\ [][NextConc]_vars

-----------------------------------------------------------------------------
(* Properties of the Windower *)

Fresh == NewDeterministicWeightedWithoutReplacement

Snapshot(loc) == GetValidatorSet(loc.pChainHeight).set
LookupOK(loc) == GetValidatorSet(loc.pChainHeight).err = "nil"
Returned(loc) == loc.pc = "done"

Max(a, b) == IF a > b THEN a ELSE b

\* The call of loc, run alone on a sampler of its own
Alone(loc, order) ==
    DelayWhole(loc.chainHeight, loc.pChainHeight, loc.validatorID, order, Fresh).loc

Occurs(loc, v) ==
    \E i \in DOMAIN loc.indices :
        /\ loc.indices[i] \in DOMAIN loc.validators
        /\ loc.validators[loc.indices[i]].id = v

\* C5: every call of Delay issued while other calls run on the same Windower
\* returns the duration and the error it returns when run alone.
C5_ConcurrentDelayAsAlone ==
    \A p \in Callers :
        Returned(dl[p]) =>
            /\ dl[p].delay = Alone(dl[p], dl[p].order).delay
            /\ dl[p].err = Alone(dl[p], dl[p].order).err

\* C6: the result of a call is the one its inputs (chainHeight, the snapshot
\* at pChainHeight, validatorID) give on a sampler that served no call before,
\* whatever calls the Windower's sampler has served.
C6_DelayDeterminedByInputs ==
    Returned(dl[1]) =>
        /\ dl[1].delay = Alone(dl[1], dl[1].order).delay
        /\ dl[1].err = Alone(dl[1], dl[1].order).err
        /\ dl[1].indices = Alone(dl[1], dl[1].order).indices

C6_Witness ==
    /\ Returned(dl[1])
    /\ dl[1].reused
    /\ dl[1].err = "nil"
    /\ dl[1].delay > 0
    /\ Len(dl[1].validators) > 1

C8_SamplesMaxOfWindowsAndWeight ==
    (/\ Returned(dl[1])
     /\ LookupOK(dl[1])
     /\ TotalWeight(Snapshot(dl[1])) <= MaxUint64)
    => /\ dl[1].numToSample = Max(maxWindows, TotalWeight(Snapshot(dl[1])))
       /\ dl[1].err = "nil"
       /\ \A v \in DOMAIN Snapshot(dl[1]) : Occurs(dl[1], v)

\* C9: when the weights sum to more than the largest unsigned integer, Delay
\* returns the overflow error and a zero duration in every iteration order,
\* and neither the sampler nor the walk is reached.
C9_OverflowIsAnError ==
    (/\ Returned(dl[1])
     /\ LookupOK(dl[1])
     /\ TotalWeight(Snapshot(dl[1])) > MaxUint64)
    => /\ dl[1].err = "errOverflow"
       /\ dl[1].delay = 0
       /\ dl[1].validatorWeights = << >>
       /\ dl[1].indices = << >>

C9_Witness ==
    /\ Returned(dl[1])
    /\ dl[1].err = "errOverflow"
    /\ Len(dl[1].order) = 3
    /\ LET m == Snapshot(dl[1])
       IN m[dl[1].order[1]] + m[dl[1].order[2]] <= MaxUint64

Ascending(vals) ==
    \A i, j \in DOMAIN vals : i < j => vals[i].id < vals[j].id

\* C10: whatever order the snapshot map was traversed in, the sorted slice
\* is the snapshot's pairs ascending by identity, and slice, weight sequence
\* and result are those of every other traversal order.
C10_IterationOrderIrrelevant ==
    (Returned(dl[1]) /\ LookupOK(dl[1])) =>
        /\ dl[1].err = "nil" =>
             /\ Ascending(dl[1].validators)
             /\ {<<v.id, v.weight>> : v \in {dl[1].validators[i] : i \in DOMAIN dl[1].validators}}
                  = {<<k, Snapshot(dl[1])[k]>> : k \in DOMAIN Snapshot(dl[1])}
        /\ \A o \in IterationOrders(Snapshot(dl[1])) :
             /\ Alone(dl[1], o).validators = dl[1].validators
             /\ Alone(dl[1], o).validatorWeights = dl[1].validatorWeights
             /\ Alone(dl[1], o).delay = dl[1].delay
             /\ Alone(dl[1], o).err = dl[1].err

C10_Witness ==
    /\ Returned(dl[1])
    /\ dl[1].err = "nil"
    /\ Len(dl[1].order) = 3
    /\ dl[1].order[1] > dl[1].order[2]
    /\ dl[1].validatorWeights[1] # dl[1].validatorWeights[2]
    /\ dl[1].delay > 0

-----------------------------------------------------------------------------
(* Properties of the lineage rules *)

\* Caller p has just been answered by verifyPostForkChild
Answered(p) ==
    /\ vc[p].pc # "done"
    /\ vc'[p].pc = "done"
    /\ vc'[p].op = "verifyPostForkChild"

\* C1: a call of verifyPostForkChild that returns nil leaves the child in the
\* verified-block index, and it returns nil only if no call on the same
\* pre-fork block has returned nil before (no child of that block is in the
\* index yet).
C1_NilOnlyOnce ==
    [][(Answered(1) /\ vc'[1].err = "nil") =>
         /\ vc'[1].child \in verifiedBlocks'
         /\ ~ \E c \in verifiedBlocks : InnerParent(c.innerBlk) = vc'[1].b]_vars

\* C2: on a pre-fork block whose timestamp is before the activation time,
\* verifyPostForkChild answers every child with an error and registers
\* nothing.
C2_NoPostForkChildBeforeActivation ==
    [][(Answered(1) /\ blkTime[vc'[1].b] < activationTime) =>
         /\ vc'[1].err # "nil"
         /\ verifiedBlocks' = verifiedBlocks
         /\ Tree' = Tree]_vars

C2_Witness ==
    /\ vc[1].pc = "done"
    /\ vc[1].op = "verifyPostForkChild"
    /\ blkTime[vc[1].b] < activationTime
    /\ vc[1].err = "errProposersNotActivated"

\* C3: a call of verifyPostForkChild whose child wraps an inner block that is
\* already in the verified-inner-block set (its Verify has returned nil
\* before) does not invoke the inner block's Verify.
C3_InnerVerifyNotRepeated ==
    [][(Answered(1) /\ vc'[1].child.innerBlk \in Tree) => ~vc'[1].innerVerified]_vars

C3_Witness ==
    /\ vc[1].pc = "done"
    /\ vc[1].op = "verifyPostForkChild"
    /\ vc[1].err = "nil"
    /\ ~vc[1].innerVerified
    /\ \E c \in verifiedBlocks :
         c # vc[1].child /\ c.innerBlk = vc[1].child.innerBlk

\* C4: two calls in flight for different children that wrap the same inner
\* block are never both between the Contains check and the recording of
\* that inner block.
C4_CheckAndVerifyAtomic ==
    \A p, q \in Callers :
        (/\ p # q
         /\ vc[p].pc = "verifying"
         /\ vc[q].pc = "verifying"
         /\ vc[p].child # vc[q].child)
        => vc[p].child.innerBlk # vc[q].child.innerBlk

\* Caller p has just been answered by operation op
AnsweredBy(p, op) ==
    /\ vc[p].pc # "done"
    /\ vc'[p].pc = "done"
    /\ vc'[p].op = op

\* C12: verifyPostForkChild rejects a child whose timestamp is strictly
\* before its parent's and a child whose timestamp is strictly after
\* now + maxSkew; the two timestamp checks reject no other child, so a
\* timestamp equal to the parent's or equal to now + maxSkew passes them.
C12_TimestampBoundsAreStrict ==
    [][Answered(1) =>
         LET b == vc'[1].b
             child == vc'[1].child
             err == vc'[1].err
         IN /\ child.timestamp < blkTime[b] => err # "nil"
            /\ child.timestamp > now + maxSkew => err # "nil"
            /\ err = "errTimeNotMonotonic" => child.timestamp < blkTime[b]
            /\ err = "errTimeTooAdvanced" => child.timestamp > now + maxSkew]_vars

C12_Witness ==
    /\ vc[1].pc = "done"
    /\ vc[1].op = "verifyPostForkChild"
    /\ vc[1].child.timestamp = blkTime[vc[1].b]
    /\ vc[1].child.timestamp = now + maxSkew
    /\ vc[1].err = "nil"

\* C13: verifyPostForkOption answers errUnexpectedBlockType whatever the
\* block, the option and the state, and leaves the verified-inner-block set
\* and the verified-block index as they are.
C13_OptionAlwaysRejected ==
    [][AnsweredBy(1, "verifyPostForkOption") =>
         /\ vc'[1].err = "errUnexpectedBlockType"
         /\ Tree' = Tree
         /\ verifiedBlocks' = verifiedBlocks]_vars

C13_Witness ==
    /\ vc[1].pc = "done"
    /\ vc[1].op = "verifyPostForkOption"
    /\ vc[1].err = "errUnexpectedBlockType"
    /\ blkTime[vc[1].b] >= activationTime
    /\ vc[1].b \notin oracle
    /\ verifiedBlocks # {}

\* C14: buildChild on a block whose timestamp is before the activation time
\* returns a pre-fork block wrapping the inner block, persists nothing and
\* does not look up the current height; otherwise a block it returns without
\* error is a post-fork block with timestamp max(clock truncated to whole
\* seconds, parent timestamp) and the current chain height, persisted by
\* storePostForkBlock, and a failing height lookup is returned as the error.
C14_BuildChildShape ==
    [][AnsweredBy(1, "buildChild") =>
         LET b == vc'[1].b
             r == vc'[1]
         IN IF blkTime[b] < activationTime
            THEN /\ r.err = "nil"
                 /\ r.blk.kind = "preForkBlock"
                 /\ r.blk.innerBlk = r.child.innerBlk
                 /\ ~r.stored
                 /\ ~r.heightAsked
            ELSE /\ r.heightAsked
                 /\ currentHeight.err # "nil" =>
                      r.err = currentHeight.err /\ r.blk = NoBlock /\ ~r.stored
                 /\ r.err = "nil" =>
                      /\ r.blk.kind = "postForkBlock"
                      /\ r.blk.innerBlk = r.child.innerBlk
                      /\ r.blk.timestamp = Max(now, blkTime[b]) * SubSeconds
                      /\ currentHeight.err = "nil"
                      /\ r.blk.pChainHeight = currentHeight.height
                      /\ r.stored]_vars

C14_Witness ==
    /\ vc[1].pc = "done"
    /\ vc[1].op = "buildChild"
    /\ vc[1].err = "nil"
    /\ vc[1].blk.kind = "postForkBlock"
    /\ vc[1].stored
    /\ vc[1].blk.timestamp > blkTime[vc[1].b] * SubSeconds

\* The checks of verifyPostForkChild before the inner block is verified, in
\* the order of the contract, and the reasons each can give
Violated(k, b, child) ==
    CASE k = 1 -> b \in oracle
      [] k = 2 -> IF status[b] = "Accepted" THEN lastAccepted # "errNotFound"
                  ELSE b \in Tree
      [] k = 3 -> currentHeight.err # "nil" \/ child.pChainHeight > currentHeight.height
      [] k = 4 -> child.pChainHeight < minimumPChainHeight
      [] k = 5 -> InnerParent(child.innerBlk) # b
      [] k = 6 -> blkTime[b] < activationTime
      [] k = 7 -> child.timestamp < blkTime[b]
      [] k = 8 -> child.timestamp > now + maxSkew
      [] k = 9 -> child.signed

Reasons ==
    << {"errParentIsOracle"},
       {"errUnexpectedBlockType", "errDatabase"},
       {"errHeight", "errPChainHeightNotReached"},
       {"errPChainHeightTooLow"},
       {"errInnerParentMismatch"},
       {"errProposersNotActivated"},
       {"errTimeNotMonotonic"},
       {"errTimeTooAdvanced"},
       {"errUnexpectedSignature"},
       {"errInnerVerify"} >>

ReasonsDiffer ==
    \A j, k \in 1..10 : j # k => Reasons[j] \cap Reasons[k] = {}

\* C15: verifyPostForkChild answers with the reason of the first check, in
\* the order of the contract, that the child violates; the inner block is
\* verified last; the reasons of different checks differ.
C15_FirstViolatedCheckDecides ==
    [][Answered(1) =>
         LET b == vc'[1].b
             child == vc'[1].child
             err == vc'[1].err
             bad == {k \in 1..9 : Violated(k, b, child)}
         IN /\ \A k \in bad :
                 (\A j \in bad : k <= j) => err \in Reasons[k]
            /\ bad = {} =>
                 IF vc'[1].innerVerified
                 THEN /\ err = vc'[1].innerAns
                      /\ err # "nil" => err \in Reasons[10]
                 ELSE err = "nil" /\ child.innerBlk \in Tree
            /\ vc'[1].innerVerified => bad = {}
            /\ ReasonsDiffer]_vars

C15_Witness ==
    /\ vc[1].pc = "done"
    /\ vc[1].op = "verifyPostForkChild"
    /\ vc[1].err = "errPChainHeightTooLow"
    /\ Cardinality({k \in 1..9 : Violated(k, vc[1].b, vc[1].child)}) >= 3

\* C16: a call of verifyPostForkChild that returns an error changes neither
\* the verified-inner-block set nor the verified-block index; one that
\* returns nil changes them only by putting the child's inner block into the
\* set and the child into the index; no step removes an entry, and every
\* block of the index has its inner block in the set.
C16_VerifiedStateFrame ==
    [][/\ Tree \subseteq Tree'
       /\ verifiedBlocks \subseteq verifiedBlocks'
       /\ \A c \in verifiedBlocks' : c.innerBlk \in Tree'
       /\ (Answered(1) /\ vc'[1].err # "nil") =>
             Tree' = Tree /\ verifiedBlocks' = verifiedBlocks
       /\ (Answered(1) /\ vc'[1].err = "nil") =>
             /\ Tree' = Tree \union {vc'[1].child.innerBlk}
             /\ verifiedBlocks' = verifiedBlocks \union {vc'[1].child}
       /\ ~Answered(1) => Tree' = Tree /\ verifiedBlocks' = verifiedBlocks]_vars

C16_Witness ==
    /\ vc[1].pc = "done"
    /\ vc[1].op = "verifyPostForkChild"
    /\ vc[1].err = "errInnerVerify"
    /\ verifiedBlocks # {}
    /\ Tree # {}

\* C17: verifyPreForkChild on a block before the activation time returns
\* what the child's inner Verify answers; on a block at or after it, it
\* returns an error without asking the child's inner Verify, unless the block
\* is an oracle block that passes verifyIsPreForkBlock, and then it returns
\* what the child's inner Verify answers.  It changes neither the
\* verified-inner-block set nor the verified-block index.
C17_PreForkChildDelegates ==
    [][AnsweredBy(1, "verifyPreForkChild") =>
         LET b == vc'[1].b
             r == vc'[1]
             delegated == r.innerVerified /\ r.innerAns \in InnerErrs /\ r.err = r.innerAns
         IN /\ blkTime[b] < activationTime => delegated
            /\ (/\ blkTime[b] >= activationTime
                /\ b \in oracle
                /\ VerifyIsPreForkBlock(b) = "nil") => delegated
            /\ (/\ blkTime[b] >= activationTime
                /\ ~(b \in oracle /\ VerifyIsPreForkBlock(b) = "nil"))
               => r.err # "nil" /\ ~r.innerVerified
            /\ Tree' = Tree
            /\ verifiedBlocks' = verifiedBlocks]_vars

C17_Witness ==
    /\ vc[1].pc = "done"
    /\ vc[1].op = "verifyPreForkChild"
    /\ blkTime[vc[1].b] >= activationTime
    /\ vc[1].b \in oracle
    /\ vc[1].innerVerified
    /\ vc[1].err = "errInnerVerify"
    /\ verifiedBlocks # {}

\* C18: verifyIsPreForkBlock on an accepted block answers nil exactly when
\* the last-accepted lookup reports not-found, errUnexpectedBlockType when
\* the lookup succeeds and the lookup's error otherwise; on a block that is
\* not accepted it answers errUnexpectedBlockType exactly when the block's
\* inner block is in the verified-inner-block set and nil otherwise.  So once
\* a post-fork block has been accepted, verifyPostForkChild on an accepted
\* pre-fork block returns an error.
C18_IsPreForkBlockTable ==
    /\ (vc[1].pc = "done" /\ vc[1].op = "verifyIsPreForkBlock") =>
          LET b == vc[1].b
              err == vc[1].err
          IN IF status[b] = "Accepted"
             THEN /\ err = "nil" <=> lastAccepted = "errNotFound"
                  /\ lastAccepted = "nil" => err = "errUnexpectedBlockType"
                  /\ lastAccepted \notin {"nil", "errNotFound"} => err = lastAccepted
             ELSE /\ err = "errUnexpectedBlockType" <=> b \in Tree
                  /\ err = "nil" <=> b \notin Tree
    /\ (/\ vc[1].pc = "done"
        /\ vc[1].op = "verifyPostForkChild"
        /\ status[vc[1].b] = "Accepted"
        /\ lastAccepted = "nil") => vc[1].err # "nil"

C18_Witness ==
    /\ vc[1].pc = "done"
    /\ vc[1].op = "verifyIsPreForkBlock"
    /\ status[vc[1].b] # "Accepted"
    /\ vc[1].b \in Tree
    /\ vc[1].err = "errUnexpectedBlockType"

\* C19: a block on which verifyPreForkChild returns nil is before the
\* activation time or an oracle block and has no post-fork child in the
\* verified-block index; a block on which verifyPostForkChild returns nil,
\* or which has a post-fork child in the index, is at or after the
\* activation time and not an oracle block.  Timestamps and oracle-ness never
\* change, so no block gets nil from both.
C19_ChildShapesExclusive ==
    /\ (vc[1].pc = "done" /\ vc[1].op = "verifyPreForkChild" /\ vc[1].err = "nil") =>
          /\ blkTime[vc[1].b] < activationTime \/ vc[1].b \in oracle
          /\ ~ \E c \in verifiedBlocks : InnerParent(c.innerBlk) = vc[1].b
    /\ (vc[1].pc = "done" /\ vc[1].op = "verifyPostForkChild" /\ vc[1].err = "nil") =>
          /\ blkTime[vc[1].b] >= activationTime
          /\ vc[1].b \notin oracle
    /\ \A c \in verifiedBlocks :
          /\ InnerParent(c.innerBlk) \in PreForkIDs
          /\ blkTime[InnerParent(c.innerBlk)] >= activationTime
          /\ InnerParent(c.innerBlk) \notin oracle

C19_Witness ==
    /\ vc[1].pc = "done"
    /\ vc[1].op = "verifyPreForkChild"
    /\ vc[1].err = "nil"
    /\ vc[1].b = 1
    /\ vc[1].b \in oracle
    /\ blkTime[1] >= activationTime
    /\ \E c \in verifiedBlocks : InnerParent(c.innerBlk) = 2

-----------------------------------------------------------------------------
(* Further properties of the Windower *)

\* The sampler was reached and answered: the call has a drawn sequence
Drawn(loc) == Returned(loc) /\ LookupOK(loc) /\ loc.err \notin {"errOverflow", "errSample"}

UnitSnapshot == [v \in ValidatorIDs |-> 1]

\* C11: when validatorID does not occur in the drawn index sequence, Delay
\* returns no error and (number of indices drawn) x 3s; on the snapshot
\* {1:1, 2:1, 3:1} three indices are drawn, the validator drawn k-th gets
\* (k-1) x 3s and an identity outside the snapshot gets 9s.
C11_AbsentValidatorGetsFullDelay ==
    /\ (Drawn(dl[1]) /\ ~Occurs(dl[1], dl[1].validatorID)) =>
          /\ dl[1].validatorID \notin DOMAIN Snapshot(dl[1])
          /\ dl[1].err = "nil"
          /\ dl[1].delay = Len(dl[1].indices) * windowDuration
    /\ (Returned(dl[1]) /\ LookupOK(dl[1]) /\ Snapshot(dl[1]) = UnitSnapshot) =>
          /\ dl[1].err = "nil"
          /\ Len(dl[1].indices) = 3
          /\ \A k \in 1..3 :
               dl[1].validators[dl[1].indices[k]].id = dl[1].validatorID
                  => dl[1].delay = (k - 1) * windowDuration
          /\ dl[1].validatorID = NoValidator => dl[1].delay = 3 * windowDuration

C11_Witness ==
    /\ Returned(dl[1])
    /\ LookupOK(dl[1])
    /\ Snapshot(dl[1]) = UnitSnapshot
    /\ dl[1].validatorID = NoValidator
    /\ dl[1].err = "nil"
    /\ dl[1].delay = 9

\* The call of loc, asked for validator v instead, on a sampler of its own
AloneFor(loc, v) ==
    DelayWhole(loc.chainHeight, loc.pChainHeight, v, loc.order, Fresh).loc

\* C20: for the chainHeight and the snapshot of a call, Delay answers without
\* error, distinct validators of the snapshot get distinct durations, and
\* exactly one of them gets 0.
C20_WindowsAreExclusive ==
    (/\ Returned(dl[1])
     /\ LookupOK(dl[1])
     /\ dl[1].validatorID \in DOMAIN Snapshot(dl[1])
     /\ TotalWeight(Snapshot(dl[1])) <= MaxUint64)
    => /\ dl[1].err = "nil"
       /\ \A w \in DOMAIN Snapshot(dl[1]) \ {dl[1].validatorID} :
            /\ AloneFor(dl[1], w).err = "nil"
            /\ AloneFor(dl[1], w).delay # dl[1].delay
       /\ \/ dl[1].delay = 0
          \/ \E w \in DOMAIN Snapshot(dl[1]) : AloneFor(dl[1], w).delay = 0

\* Where the total weight fits a signed integer the sampler is asked for a
\* valid count, and the windows of a snapshot are exclusive
WindowsExclusiveBelowMaxInt ==
    (/\ Returned(dl[1])
     /\ LookupOK(dl[1])
     /\ dl[1].validatorID \in DOMAIN Snapshot(dl[1])
     /\ TotalWeight(Snapshot(dl[1])) <= MaxInt)
    => /\ dl[1].err = "nil"
       /\ \A w \in DOMAIN Snapshot(dl[1]) \ {dl[1].validatorID} :
            /\ AloneFor(dl[1], w).err = "nil"
            /\ AloneFor(dl[1], w).delay # dl[1].delay
       /\ Cardinality({w \in DOMAIN Snapshot(dl[1]) : AloneFor(dl[1], w).delay = 0}) = 1

====
